---------------------------- MODULE Spec2Model ----------------------------
(***************************************************************************)
(* Model of the baseball lineup optimizer: the profile store               *)
(* (data_loader.py), the training step (model.py) and the ranking step     *)
(* (optimizer.py).                                                         *)
(*                                                                         *)
(* Floating-point numbers are modelled as exact rationals [n, d] in lowest *)
(* terms (0.0 is [n |-> 0, d |-> 1]); a mean of no values is NaN.          *)
(* A name is modelled as the sequence of tokens that                       *)
(* name.strip().split(' ') yields.                                         *)
(***************************************************************************)
EXTENDS Integers, Sequences, FiniteSets, TLC

VARIABLES
    history,      \* the Statcast snapshot the data provider returns (rows)
    cacheExists,  \* statcast_2024_sample.csv exists (its content is history)
    statsFile,    \* batter_stats.csv: whether it exists, and the table written
    processed,    \* processed_data.csv: whether it exists, and the frame written
    scalerFile,   \* scaler.pkl: whether it exists, the run that wrote it, its columns
    modelFile,    \* baseball_model.keras: whether it exists, the run that wrote it
    trainPc,      \* position of the train_model run in progress
    trainRun,     \* number of train_model runs started so far
    call          \* the last call of the public API: its arguments, effects, result

vars == <<history, cacheExists, statsFile, processed, scalerFile, modelFile,
          trainPc, trainRun, call>>

----------------------------------------------------------------------------
(* Bounds *)

MaxHist == 3       \* rows of a history given to calculate_batter_stats
MaxCacheRows == 2  \* rows of the cached snapshot the profiles are read from
MaxBatters == 3    \* batters of a lineup, with the files in any state
MaxRanked == 4     \* batters of a lineup that is ranked
MaxRuns == 3       \* train_model runs

----------------------------------------------------------------------------
(* Values *)

\* Python's None as a returned value (a dict is a record without "kind").
None == [kind |-> "None"]

\* A null cell of the frame: a missing event (a string column) and a NaN
\* measurement (a numeric column).
Null == "null"
NullNum == -1

\* get_player_id's None; MLBAM identifiers are positive, and both None and 0
\* are falsy in "if pid:".
NoId == 0

RECURSIVE GCD(_, _)
GCD(a, b) == IF b = 0 THEN a ELSE GCD(b, a % b)

Abs(x) == IF x < 0 THEN -x ELSE x

\* The rational n/d (d > 0) in lowest terms.
Rat(n, d) == LET g == GCD(Abs(n), d) IN [n |-> n \div g, d |-> d \div g]

RatSub(a, b) == Rat(a.n * b.d - b.n * a.d, a.d * b.d)

RatLeq(a, b) == a.n * b.d <= b.n * a.d

Zero == Rat(0, 1)

\* The float NaN, which no rational equals.
NaN == [n |-> 0, d |-> 0]

\* Sum of the elements of a sequence of integers.
RECURSIVE SumSeq(_)
SumSeq(s) == IF s = <<>> THEN 0 ELSE Head(s) + SumSeq(Tail(s))

\* The values of one column, in row order.
Column(rows, c) == [i \in 1..Len(rows) |-> rows[i][c]]

IsNotNull(v) == v # NullNum

\* pandas Series.mean(): nulls are skipped; the mean of no values is NaN.
Mean(values) ==
    LET present == SelectSeq(values, IsNotNull)
    IN  IF present = <<>> THEN NaN ELSE Rat(SumSeq(present), Len(present))

\* Number of rows whose events value is in the given set (isin(...).sum()).
CountIn(rows, evs) ==
    Cardinality({i \in 1..Len(rows) : rows[i].events \in evs})

----------------------------------------------------------------------------
(* calculate_batter_stats *)

hit_events == {"single", "double", "triple", "home_run"}

ab_events_bad == hit_events \cup
    {"field_out", "strikeout", "force_out", "grounded_into_double_play",
     "fielders_choice", "walk"}

ab_events == hit_events \cup
    {"field_out", "strikeout", "force_out", "grounded_into_double_play",
     "fielders_choice"}

total_bases_bad(group) ==
      CountIn(group, {"single"}) + 2 * CountIn(group, {"double"})
    + 3 * CountIn(group, {"triple"})

total_bases(group) ==
      CountIn(group, {"single"}) + 2 * CountIn(group, {"double"})
    + 3 * CountIn(group, {"triple"}) + 4 * CountIn(group, {"home_run"})

get_stats(group) ==
    LET hits == CountIn(group, hit_events)
        ab   == CountIn(group, ab_events)
        tb   == total_bases(group)
    IN  IF ab = 0
        THEN [avg |-> Zero, slg |-> Zero, iso |-> Zero]
        ELSE LET avg == Rat(hits, ab)
                 slg == Rat(tb, ab)
             IN  [avg |-> avg, slg |-> slg, iso |-> RatSub(slg, avg)]

\* df.groupby('batter').apply(get_stats): one row of stats per batter id.
calculate_batter_stats(df) ==
    LET ids == {df[i].batter : i \in 1..Len(df)}
        Group(b) == LET Of(r) == r.batter = b IN SelectSeq(df, Of)
    IN  [b \in ids |-> get_stats(Group(b))]

----------------------------------------------------------------------------
(* The external providers *)

\* pybaseball.playerid_lookup(last, first): the candidates found, in the
\* provider's order, or an exception. last is the sequence of the tokens
\* after the first one (' '.join(parts[1:])).
playerid_lookup(last, first) ==
    CASE first = "Aaron"  /\ last = <<"Judge">>      -> [raises |-> FALSE, ids |-> <<1>>]
      [] first = "Juan"   /\ last = <<"Soto">>       -> [raises |-> FALSE, ids |-> <<2, 9>>]
      [] first = "Gerrit" /\ last = <<"Cole">>       -> [raises |-> FALSE, ids |-> <<3>>]
      [] first = "Hyun"   /\ last = <<"Jin", "Ryu">> -> [raises |-> FALSE, ids |-> <<4>>]
      [] first = "Net"    /\ last = <<"Outage">>     -> [raises |-> TRUE,  ids |-> <<>>]
      [] OTHER                                       -> [raises |-> FALSE, ids |-> <<>>]

\* The names the calls are made with.
Names == {<<"Aaron", "Judge">>, <<"Juan", "Soto">>, <<"Gerrit", "Cole">>,
          <<"Hyun", "Jin", "Ryu">>, <<"Net", "Outage">>, <<"Joe", "Nobody">>,
          <<"Madonna">>, <<>>}

\* Rows the Statcast provider may return. Pitcher 3 throws right, pitcher 5
\* left; batter 1 stands right, batter 2 left.
Row(p, b, ev, speed, spin, pt, st) ==
    [pitcher |-> p, batter |-> b, events |-> ev, release_speed |-> speed,
     release_spin_rate |-> spin, p_throws |-> pt, stand |-> st]

CacheRows ==
    {Row(3, 1, "single",    96, 2400, "R", "R"),
     Row(3, 2, "strikeout", 98, NullNum, "R", "L"),
     Row(5, 1, "home_run",  90, 2000, "L", "R"),
     Row(5, 2, Null,        93, 2200, "L", "L")}

Events == ab_events_bad \cup {"sac_fly", Null}

\* Batter 1 with every event, batter 2 with a double, a walk and a home run.
StatRows ==
    {Row(3, 1, ev, 95, 2300, "R", "R") : ev \in Events}
    \cup {Row(3, 2, ev, 95, 2300, "R", "L") : ev \in {"double", "walk", "home_run"}}

\* All sequences over S of length lo to hi.
SeqsOf(S, lo, hi) == UNION {[1..k -> S] : k \in lo..hi}

----------------------------------------------------------------------------
(* preprocess_data and fetch_data *)

features == <<"release_speed", "release_spin_rate", "p_throws", "stand",
              "avg", "slg", "iso", "is_hit">>

\* .map({'R': 0, 'L': 1}): any other value maps to NaN.
map_hand(h) == CASE h = "R" -> 0 [] h = "L" -> 1 [] OTHER -> NullNum

\* One row of data after is_hit is added and the stats are merged in.
merged_row(r, batter_stats) ==
    [release_speed |-> r.release_speed,
     release_spin_rate |-> r.release_spin_rate,
     p_throws |-> r.p_throws,
     stand |-> r.stand,
     avg |-> batter_stats[r.batter].avg,
     slg |-> batter_stats[r.batter].slg,
     iso |-> batter_stats[r.batter].iso,
     is_hit |-> IF r.events \in hit_events THEN 1 ELSE 0]

\* The frame preprocess_data returns and writes to processed_data.csv.
preprocess_frame(data) ==
    LET batter_stats == calculate_batter_stats(data)
        merged  == [i \in 1..Len(data) |-> merged_row(data[i], batter_stats)]
        \* dropna(): only the two measurements are ever null here
        NoNull(m) == m.release_speed # NullNum /\ m.release_spin_rate # NullNum
        kept    == SelectSeq(merged, NoNull)
        Encode(m) == [m EXCEPT !.p_throws = map_hand(m.p_throws),
                               !.stand = map_hand(m.stand)]
    IN  [cols |-> features,
         rows |-> [i \in 1..Len(kept) |->
                     [j \in 1..Len(features) |-> Encode(kept[i])[features[j]]]]]

NoStats == [exists |-> FALSE, table |-> <<>>]
NoFrame == [exists |-> FALSE, cols |-> <<>>, rows |-> <<>>]
NoScaler == [exists |-> FALSE, run |-> 0, cols |-> <<>>]
NoModel == [exists |-> FALSE, run |-> 0, input_dim |-> 0]
Idle == [op |-> "idle"]

\* fetch_data(): reads the cache when it exists, else fetches and writes it.
FetchData ==
    /\ call = Idle
    /\ ~cacheExists
    /\ cacheExists' = TRUE
    /\ UNCHANGED <<history, statsFile, processed, scalerFile, modelFile,
                   trainPc, trainRun, call>>

\* preprocess_data(fetch_data()): writes batter_stats.csv, then
\* processed_data.csv.
PreprocessData ==
    /\ call = Idle
    /\ cacheExists
    /\ statsFile' = [exists |-> TRUE, table |-> calculate_batter_stats(history)]
    /\ processed' = [exists |-> TRUE] @@ preprocess_frame(history)
    /\ UNCHANGED <<history, cacheExists, scalerFile, modelFile, trainPc,
                   trainRun, call>>

----------------------------------------------------------------------------
(* The profile store *)

get_player_id(name) ==
    LET parts == name
    IN  IF Len(parts) < 2 THEN NoId
        ELSE LET first == parts[1]
                 last  == Tail(parts)
                 data  == playerid_lookup(last, first)
             IN  IF data.raises THEN NoId
                 ELSE IF data.ids # <<>> THEN data.ids[1]
                 ELSE NoId

\* 0 if value == 'R' else 1
hand_code(h) == IF h = "R" THEN 0 ELSE 1

league_average_bad(df) ==
    [release_speed     |-> Mean(Column(df, "release_speed")),
     release_spin_rate |-> Mean(Column(df, "release_spin_rate")),
     p_throws          |-> hand_code(df[1].p_throws)]

league_average(df) ==
    [release_speed     |-> Mean(Column(df, "release_speed")),
     release_spin_rate |-> Mean(Column(df, "release_spin_rate")),
     p_throws          |-> 0]

get_pitcher_profile(name) ==
    IF ~cacheExists THEN None
    ELSE LET df  == history
             pid == get_player_id(name)
             Of(r) == r.pitcher = pid
             player_data == SelectSeq(df, Of)
         IN  IF pid # NoId /\ player_data # <<>>
             THEN [release_speed     |-> Mean(Column(player_data, "release_speed")),
                   release_spin_rate |-> Mean(Column(player_data, "release_spin_rate")),
                   p_throws          |-> hand_code(player_data[1].p_throws)]
             ELSE league_average(df)

static_default_bad == [stand |-> 0, avg |-> Rat(250, 1000), slg |-> Rat(400, 1000),
                       iso |-> Rat(150, 1000)]

static_default == [stand |-> 0, avg |-> Rat(240, 1000), slg |-> Rat(400, 1000),
                   iso |-> Rat(160, 1000)]

get_batter_profile(name) ==
    IF ~cacheExists \/ ~statsFile.exists THEN None
    ELSE LET df       == history
             stats_df == statsFile.table
             pid      == get_player_id(name)
             Of(r)    == r.batter = pid
             player_data == SelectSeq(df, Of)
             stand    == IF player_data # <<>>
                         THEN hand_code(player_data[1].stand) ELSE 0
         IN  IF pid # NoId /\ pid \in DOMAIN stats_df
             THEN [stand |-> stand,
                   avg |-> stats_df[pid].avg,
                   slg |-> stats_df[pid].slg,
                   iso |-> stats_df[pid].iso]
             ELSE static_default

\* A direct call of get_pitcher_profile.
GetPitcherProfile(name) ==
    /\ call = Idle
    /\ call' = [op |-> "get_pitcher_profile", name |-> name,
                ret |-> get_pitcher_profile(name)]
    /\ UNCHANGED <<history, cacheExists, statsFile, processed, scalerFile,
                   modelFile, trainPc, trainRun>>

\* A direct call of get_batter_profile.
GetBatterProfile(name) ==
    /\ call = Idle
    /\ call' = [op |-> "get_batter_profile", name |-> name,
                ret |-> get_batter_profile(name)]
    /\ UNCHANGED <<history, cacheExists, statsFile, processed, scalerFile,
                   modelFile, trainPc, trainRun>>

\* The caller takes the result; the next call may start.
Return ==
    /\ call # Idle
    /\ call' = Idle
    /\ UNCHANGED <<history, cacheExists, statsFile, processed, scalerFile,
                   modelFile, trainPc, trainRun>>

----------------------------------------------------------------------------
(* optimize_lineup *)

Str(t) == [kind |-> "str", text |-> t]
MsgNoModel   == Str("Model or Scaler not found. Please train the model first.")
MsgNoPitcher == Str("Pitcher {pitcher_name} not found (or no data available).")
MsgNoBatters == Str("No valid batters found.")

artifacts_present_bad == modelFile.exists

\* os.path.exists(MODEL_PATH) and os.path.exists(SCALER_PATH)
artifacts_present == modelFile.exists /\ scalerFile.exists

\* The columns the lineup frame X is built with.
lineup_columns == <<"release_speed", "release_spin_rate", "p_throws", "stand",
                    "avg", "slg", "iso">>

feature_row_bad(pitcher_stats, batter_stats) ==
    <<pitcher_stats.release_speed, pitcher_stats.release_spin_rate,
      batter_stats.stand, pitcher_stats.p_throws,
      batter_stats.avg, batter_stats.slg, batter_stats.iso>>

\* The row built for one batter.
feature_row(pitcher_stats, batter_stats) ==
    <<pitcher_stats.release_speed, pitcher_stats.release_spin_rate,
      pitcher_stats.p_throws, batter_stats.stand,
      batter_stats.avg, batter_stats.slg, batter_stats.iso>>

is_valid_bad(batter_stats) == batter_stats # None /\ batter_stats # static_default

\* "if batter_stats:" a dict with keys is truthy, None is not.
is_valid(batter_stats) == batter_stats # None

no_rows_bad(lineup_data) == FALSE

\* "if not lineup_data:" an empty list is falsy.
no_rows(lineup_data) == lineup_data = <<>>

\* The positions of batter_names whose profile is usable, in order.
RECURSIVE valid_positions(_, _)
valid_positions(batter_names, i) ==
    IF i > Len(batter_names) THEN <<>>
    ELSE (IF is_valid(get_batter_profile(batter_names[i])) THEN <<i>> ELSE <<>>)
         \o valid_positions(batter_names, i + 1)

\* Number of leading elements of a descending list that x goes after.
RECURSIVE rank_after(_, _, _)
rank_after(s, x, strict) ==
    LET Before(a, b) == IF strict THEN a.predicted_hit_prob > b.predicted_hit_prob
                        ELSE a.predicted_hit_prob >= b.predicted_hit_prob
    IN  IF s = <<>> THEN 0
        ELSE IF ~Before(Head(s), x) THEN 0
        ELSE 1 + rank_after(Tail(s), x, strict)

insert_desc_bad(s, x) ==
    LET k == rank_after(s, x, TRUE)
    IN  SubSeq(s, 1, k) \o <<x>> \o SubSeq(s, k + 1, Len(s))

\* One step of the stable descending sort: x goes after every element whose
\* key is not smaller.
insert_desc(s, x) ==
    LET k == rank_after(s, x, FALSE)
    IN  SubSeq(s, 1, k) \o <<x>> \o SubSeq(s, k + 1, Len(s))

\* results.sort(key=lambda x: x['predicted_hit_prob'], reverse=True):
\* list.sort is stable, and reverse=True keeps the order of equal keys.
RECURSIVE sort_results(_)
sort_results(results) ==
    IF results = <<>> THEN <<>>
    ELSE insert_desc(sort_results(SubSeq(results, 1, Len(results) - 1)),
                     results[Len(results)])

NoX == [cols |-> <<>>, rows |-> <<>>]
NoLoad == [model |-> NoModel, scaler |-> NoScaler]

\* What one run of optimize_lineup does: the calls it makes (effects), the
\* artifacts it loads, the frame X it hands to the scaler and what it
\* returns. predictions is what model.predict answers, one value per row.
optimize_lineup(pitcher_name, batter_names, predictions) ==
    IF ~artifacts_present
    THEN [effects |-> <<>>, loaded |-> NoLoad, X |-> NoX, ret |-> MsgNoModel]
    ELSE
    LET loaded == [model |-> modelFile, scaler |-> scalerFile]
        e1 == <<"load_model", "joblib.load", "get_pitcher_profile">>
        pitcher_stats == get_pitcher_profile(pitcher_name)
    IN  IF pitcher_stats = None
        THEN [effects |-> e1, loaded |-> loaded, X |-> NoX, ret |-> MsgNoPitcher]
        ELSE
        LET e2 == e1 \o [i \in 1..Len(batter_names) |-> "get_batter_profile"]
            pos == valid_positions(batter_names, 1)
            lineup_data == [k \in 1..Len(pos) |->
                feature_row(pitcher_stats, get_batter_profile(batter_names[pos[k]]))]
            valid_batters == [k \in 1..Len(pos) |-> batter_names[pos[k]]]
        IN  IF no_rows(lineup_data)
            THEN [effects |-> e2, loaded |-> loaded, X |-> NoX, ret |-> MsgNoBatters]
            ELSE
            LET X == [cols |-> lineup_columns, rows |-> lineup_data]
                results == [i \in 1..Len(valid_batters) |->
                               [batter |-> valid_batters[i],
                                predicted_hit_prob |-> predictions[i]]]
            IN  [effects |-> e2 \o <<"scaler.transform", "model.predict">>,
                 loaded |-> loaded, X |-> X,
                 ret |-> [kind |-> "list", items |-> sort_results(results)]]

\* The probabilities the classifier may answer (percent).
ProbLevels == {10, 30, 70}

\* How many rows model.predict is asked about (0 when it is not reached).
rows_predicted(pitcher_name, batter_names) ==
    IF artifacts_present /\ get_pitcher_profile(pitcher_name) # None
    THEN Len(valid_positions(batter_names, 1)) ELSE 0

\* Every answer model.predict may give for this call, from the given levels.
Answers(pitcher_name, batter_names, levels) ==
    [1..rows_predicted(pitcher_name, batter_names) -> levels]

OptimizeLineup(pitcher_name, batter_names, predictions) ==
    /\ call = Idle
    /\ Len(predictions) = rows_predicted(pitcher_name, batter_names)
    /\ call' = [op |-> "optimize_lineup", pitcher_name |-> pitcher_name,
                batter_names |-> batter_names, predictions |-> predictions]
               @@ optimize_lineup(pitcher_name, batter_names, predictions)
    /\ UNCHANGED <<history, cacheExists, statsFile, processed, scalerFile,
                   modelFile, trainPc, trainRun>>

----------------------------------------------------------------------------
(* train_model *)

\* X = data.drop('is_hit', axis=1): the columns left, in order.
drop_is_hit(cols) == LET Keep(c) == c # "is_hit" IN SelectSeq(cols, Keep)

\* Lines 25-36: the scaler is fitted on the processed frame and dumped.
TrainBegin ==
    /\ call = Idle
    /\ trainPc = "idle"
    /\ processed.exists
    /\ trainRun < MaxRuns
    /\ trainRun' = trainRun + 1
    /\ scalerFile' = [exists |-> TRUE, run |-> trainRun + 1,
                      cols |-> drop_is_hit(processed.cols)]
    /\ trainPc' = "fitting"
    /\ UNCHANGED <<history, cacheExists, statsFile, processed, modelFile, call>>

\* Lines 38-49: the network is fitted, evaluated and saved.
TrainFinish ==
    /\ call = Idle
    /\ trainPc = "fitting"
    /\ modelFile' = [exists |-> TRUE, run |-> trainRun,
                     input_dim |-> Len(scalerFile.cols)]
    /\ trainPc' = "idle"
    /\ UNCHANGED <<history, cacheExists, statsFile, processed, scalerFile,
                   trainRun, call>>

\* The run ends between the dump of the scaler and model.save (an exception
\* in fit or evaluate, or the process is interrupted).
TrainAbort ==
    /\ call = Idle
    /\ trainPc = "fitting"
    /\ trainPc' = "idle"
    /\ UNCHANGED <<history, cacheExists, statsFile, processed, scalerFile,
                   modelFile, trainRun, call>>

----------------------------------------------------------------------------
(* Specifications *)

Judge   == <<"Aaron", "Judge">>
Soto    == <<"Juan", "Soto">>
Cole    == <<"Gerrit", "Cole">>
Ryu     == <<"Hyun", "Jin", "Ryu">>
Outage  == <<"Net", "Outage">>
Nobody  == <<"Joe", "Nobody">>
Madonna == <<"Madonna">>

\* Two snapshots the optimizer is run against.
OptHistories ==
    {<<Row(3, 1, "single", 96, 2400, "R", "R"),
       Row(3, 2, "strikeout", 98, NullNum, "R", "L"),
       Row(5, 1, "home_run", 90, 2000, "L", "R")>>,
     <<Row(5, 2, "double", 93, 2200, "L", "L"),
       Row(5, 2, "walk", 91, 2100, "L", "L")>>}

\* The artifacts a completed train_model run leaves.
TrainedScaler(run) == [exists |-> TRUE, run |-> run, cols |-> drop_is_hit(features)]
TrainedModel(run) == [exists |-> TRUE, run |-> run,
                      input_dim |-> Len(drop_is_hit(features))]

StatsOf(h) == [exists |-> TRUE, table |-> calculate_batter_stats(h)]
FrameOf(h) == [exists |-> TRUE] @@ preprocess_frame(h)

\* calculate_batter_stats over every bounded history.
InitStats ==
    /\ history \in SeqsOf(StatRows, 1, MaxHist)
    /\ cacheExists = FALSE
    /\ statsFile = NoStats
    /\ processed = NoFrame
    /\ scalerFile = NoScaler
    /\ modelFile = NoModel
    /\ trainPc = "idle"
    /\ trainRun = 0
    /\ call = Idle

NextStats == FetchData \/ PreprocessData

SpecStats == InitStats /\ [][NextStats]_vars

\* The profile store over every bounded snapshot, the two local files
\* present or not.
Init ==
    /\ history \in SeqsOf(CacheRows, 1, MaxCacheRows)
    /\ cacheExists \in BOOLEAN
    /\ \E made \in BOOLEAN :
          /\ statsFile = IF made THEN StatsOf(history) ELSE NoStats
          /\ processed = IF made THEN FrameOf(history) ELSE NoFrame
    /\ scalerFile = NoScaler
    /\ modelFile = NoModel
    /\ trainPc = "idle"
    /\ trainRun = 0
    /\ call = Idle

Next ==
    \/ FetchData
    \/ PreprocessData
    \/ \E name \in Names : GetPitcherProfile(name)
    \/ \E name \in Names : GetBatterProfile(name)
    \/ Return

Spec == Init /\ [][Next]_vars

\* optimize_lineup with every file present or not.
InitOpt ==
    /\ history \in OptHistories
    /\ cacheExists \in BOOLEAN
    /\ \E made \in BOOLEAN :
          /\ statsFile = IF made THEN StatsOf(history) ELSE NoStats
          /\ processed = IF made THEN FrameOf(history) ELSE NoFrame
    /\ scalerFile \in {NoScaler, TrainedScaler(1)}
    /\ modelFile \in {NoModel, TrainedModel(1)}
    /\ trainPc = "idle"
    /\ trainRun = 1
    /\ call = Idle

NextOpt ==
    \/ /\ call = Idle
       /\ \E pitcher_name \in {Cole, Ryu, Madonna} :
          \E batter_names \in SeqsOf({Judge, Soto, Outage}, 0, MaxBatters) :
          \E predictions \in Answers(pitcher_name, batter_names, ProbLevels) :
             OptimizeLineup(pitcher_name, batter_names, predictions)
    \/ Return

SpecOpt == InitOpt /\ [][NextOpt]_vars

RankHistory ==
    <<Row(3, 1, "single", 96, 2400, "R", "R"),
      Row(3, 2, "strikeout", 98, NullNum, "R", "L"),
      Row(5, 1, "home_run", 90, 2000, "L", "R")>>

\* The ranking of a lineup, every file present.
InitRank ==
    /\ history = RankHistory
    /\ cacheExists = TRUE
    /\ statsFile = StatsOf(history)
    /\ processed = FrameOf(history)
    /\ scalerFile = TrainedScaler(1)
    /\ modelFile = TrainedModel(1)
    /\ trainPc = "idle"
    /\ trainRun = 1
    /\ call = Idle

NextRank ==
    \/ /\ call = Idle
       /\ \E batter_names \in SeqsOf({Judge, Soto, Outage, Madonna}, 0, MaxRanked) :
          \E predictions \in Answers(Cole, batter_names, ProbLevels) :
             OptimizeLineup(Cole, batter_names, predictions)
    \/ Return

SpecRank == InitRank /\ [][NextRank]_vars

\* Data preparation, training runs that complete or abort, and lineups
\* optimized in between.
InitTrain ==
    /\ history \in OptHistories
    /\ cacheExists = FALSE
    /\ statsFile = NoStats
    /\ processed = NoFrame
    /\ scalerFile = NoScaler
    /\ modelFile = NoModel
    /\ trainPc = "idle"
    /\ trainRun = 0
    /\ call = Idle

NextTrain ==
    \/ FetchData
    \/ PreprocessData
    \/ TrainBegin
    \/ TrainFinish
    \/ TrainAbort
    \/ /\ call = Idle
       /\ \E pitcher_name \in {Cole, Madonna} :
          \E batter_names \in {<<Judge, Outage>>, <<Soto>>} :
          \E predictions \in Answers(pitcher_name, batter_names, {30, 70}) :
             OptimizeLineup(pitcher_name, batter_names, predictions)
    \/ Return

SpecTrain == InitTrain /\ [][NextTrain]_vars

----------------------------------------------------------------------------
(* Properties *)

Optimized == call.op = "optimize_lineup"
Contacted == \E i \in 1..Len(call.effects) :
                call.effects[i] \in {"scaler.transform", "model.predict"}
ArtifactsOnDisk == modelFile.exists /\ scalerFile.exists

\* The order of the batters among the entries with probability p.
NamesAt(entries, p) ==
    LET At(e) == e.predicted_hit_prob = p
        sel == SelectSeq(entries, At)
    IN  [i \in 1..Len(sel) |-> sel[i].batter]

\* The input batters paired with the probability predicted for each.
Paired == [i \in 1..Len(call.batter_names) |->
              [batter |-> call.batter_names[i],
               predicted_hit_prob |-> call.predictions[i]]]

\* C1: whenever optimize_lineup returns a list, the list is in descending
\* order of predicted_hit_prob, and the batters that share a probability
\* appear in the order they have in the input batter_names.
C1_RankedDescendingStable ==
    (Optimized /\ call.ret.kind = "list") =>
        LET items == call.ret.items
        IN  /\ \A i, j \in 1..Len(items) :
                  i < j => items[i].predicted_hit_prob >= items[j].predicted_hit_prob
            /\ \A p \in ProbLevels : NamesAt(items, p) = NamesAt(Paired, p)

\* C1 witness: probabilities [0.3, 0.7, 0.7, 0.1] for four batters A, B, C, D
\* give the order B, C, A, D.
C1_Witness ==
    /\ Optimized
    /\ call.batter_names = <<Judge, Outage, Madonna, Soto>>
    /\ call.predictions = <<30, 70, 70, 10>>
    /\ call.ret.kind = "list"
    /\ [i \in 1..4 |-> call.ret.items[i].batter] = <<Outage, Madonna, Judge, Soto>>

\* C2: when the model artifact or the scaler artifact is absent,
\* optimize_lineup returns the 'Model or Scaler not found' string for every
\* pitcher and batter list, having loaded no artifact, resolved no profile
\* and made no predict call.
C2_MissingArtifact ==
    (Optimized /\ ~ArtifactsOnDisk) =>
        /\ call.ret = MsgNoModel
        /\ call.effects = <<>>
        /\ call.loaded = NoLoad

\* C2 witness: a lineup asked for with the model present and the scaler absent.
C2_Witness ==
    /\ Optimized
    /\ modelFile.exists /\ ~scalerFile.exists /\ cacheExists /\ statsFile.exists
    /\ call.batter_names # <<>>
    /\ call.ret = MsgNoModel

\* C3 as stated: optimize_lineup(pitcher_name, []) returns 'No valid batters
\* found.' and makes no scaler.transform or model.predict call.
C3_EmptyAlwaysNoBatters ==
    (Optimized /\ call.batter_names = <<>>) =>
        (call.ret = MsgNoBatters /\ ~Contacted)

\* C3 amended: optimize_lineup(pitcher_name, []) never calls scaler.transform
\* or model.predict; it returns 'No valid batters found.' when both artifacts
\* and the cached dataset exist, the 'Model or Scaler not found' string when
\* an artifact is absent, and the 'Pitcher ... not found' string when the
\* artifacts exist and the cached dataset does not.
C3_EmptyLineup ==
    (Optimized /\ call.batter_names = <<>>) =>
        /\ ~Contacted
        /\ call.ret = IF ~ArtifactsOnDisk THEN MsgNoModel
                      ELSE IF ~cacheExists THEN MsgNoPitcher
                      ELSE MsgNoBatters

\* C3 witness: an empty lineup with every file present.
C3_Witness ==
    /\ Optimized
    /\ call.batter_names = <<>>
    /\ ArtifactsOnDisk /\ cacheExists
    /\ call.ret = MsgNoBatters
    /\ call.effects = <<"load_model", "joblib.load", "get_pitcher_profile">>

\* How many times name occurs in a sequence of names.
Occurrences(names, name) == Cardinality({i \in 1..Len(names) : names[i] = name})

\* The returned list has one entry per position of batter_names, with the
\* same names and multiplicities.
OneEntryPerBatter ==
    /\ call.ret.kind = "list"
    /\ Len(call.ret.items) = Len(call.batter_names)
    /\ LET out == [i \in 1..Len(call.ret.items) |-> call.ret.items[i].batter]
       IN  \A name \in Names :
              Occurrences(out, name) = Occurrences(call.batter_names, name)

\* C4 as stated: past the artifact check and with a pitcher profile obtained,
\* no batter is excluded and the returned list has one entry per position of
\* batter_names (read for a batter_names that lists at least one batter).
C4_NoBatterExcludedEver ==
    (/\ Optimized /\ ArtifactsOnDisk
     /\ get_pitcher_profile(call.pitcher_name) # None
     /\ call.batter_names # <<>>)
        => OneEntryPerBatter

\* C4 amended: past the artifact check, with a pitcher profile obtained and
\* batter_stats.csv present, no batter is excluded (one feature row per
\* position of batter_names), and for a non-empty batter_names the returned
\* list has one entry per position with the same names and multiplicities;
\* with batter_stats.csv absent every batter is excluded and the result is
\* 'No valid batters found.'.
C4_NoBatterExcluded ==
    (Optimized /\ ArtifactsOnDisk /\ get_pitcher_profile(call.pitcher_name) # None)
        => IF statsFile.exists
           THEN /\ Len(call.X.rows) = Len(call.batter_names)
                /\ call.batter_names # <<>> => OneEntryPerBatter
           ELSE call.ret = MsgNoBatters

\* C4 witness: a lineup naming one batter twice and an unresolvable batter,
\* all three ranked.
C4_Witness ==
    /\ Optimized
    /\ call.batter_names = <<Judge, Outage, Judge>>
    /\ OneEntryPerBatter

\* The names get_player_id cannot resolve: a single token (or none), a
\* lookup that raises, a lookup that finds nobody.
Unresolvable(name) ==
    \/ Len(name) < 2
    \/ playerid_lookup(Tail(name), name[1]).raises
    \/ playerid_lookup(Tail(name), name[1]).ids = <<>>

\* {stand: 0, avg: 0.240, slg: 0.400, iso: 0.160}
DocumentedDefault ==
    [stand |-> 0, avg |-> Rat(6, 25), slg |-> Rat(2, 5), iso |-> Rat(4, 25)]

\* C5 as stated: for a name get_player_id cannot resolve, get_batter_profile
\* returns the documented default in every state of the local files.
C5_DefaultInEveryFileState ==
    (call.op = "get_batter_profile" /\ Unresolvable(call.name))
        => call.ret = DocumentedDefault

\* C5 amended: for a name get_player_id cannot resolve, get_batter_profile
\* returns exactly {stand: 0, avg: 0.240, slg: 0.400, iso: 0.160} whenever
\* statcast_2024_sample.csv and batter_stats.csv both exist, and returns
\* None when either file is absent.
C5_UnresolvableBatter ==
    (call.op = "get_batter_profile" /\ Unresolvable(call.name))
        => call.ret = IF cacheExists /\ statsFile.exists
                      THEN DocumentedDefault ELSE None

\* C5 witness: a lookup that raises, with both files present.
C5_Witness ==
    /\ call.op = "get_batter_profile"
    /\ call.name = Outage
    /\ cacheExists /\ statsFile.exists
    /\ call.ret = DocumentedDefault

\* The rows of the dataset thrown by the pitcher the name resolves to.
RowsThrownBy(name) ==
    LET Of(r) == r.pitcher = playerid_lookup(Tail(name), name[1]).ids[1]
    IN  IF Unresolvable(name) THEN <<>> ELSE SelectSeq(history, Of)

\* Means of release_speed and release_spin_rate over the given rows.
MeansOver(rows, hand) ==
    [release_speed     |-> Mean([i \in 1..Len(rows) |-> rows[i].release_speed]),
     release_spin_rate |-> Mean([i \in 1..Len(rows) |-> rows[i].release_spin_rate]),
     p_throws          |-> hand]

\* What the claim says get_pitcher_profile returns when the dataset is there.
ExpectedPitcherProfile(name) ==
    IF RowsThrownBy(name) = <<>>
    THEN MeansOver(history, 0)
    ELSE MeansOver(RowsThrownBy(name),
                   IF RowsThrownBy(name)[1].p_throws = "R" THEN 0 ELSE 1)

\* C6 as stated: get_pitcher_profile returns the league-average fallback
\* (means over all rows, p_throws = 0) when the name does not resolve or the
\* identifier has no rows, and the per-pitcher means when it resolves and has
\* rows.
C6_FallbackInEveryFileState ==
    call.op = "get_pitcher_profile"
        => call.ret = ExpectedPitcherProfile(call.name)

\* C6 amended: when statcast_2024_sample.csv exists, get_pitcher_profile
\* returns the league-average fallback (means over all rows, p_throws = 0)
\* if the name does not resolve or the identifier has no rows, and the
\* per-pitcher means if it resolves and has rows; when the file is absent
\* it returns None.
C6_PitcherProfile ==
    call.op = "get_pitcher_profile"
        => call.ret = IF cacheExists THEN ExpectedPitcherProfile(call.name)
                      ELSE None

\* C6 witness: a pitcher who resolves but has no rows gets the league
\* average of a dataset whose first row is a left-hander's, and it differs
\* from that left-hander's own means.
C6_Witness ==
    /\ call.op = "get_pitcher_profile"
    /\ call.name = Ryu
    /\ cacheExists
    /\ Len(history) = 2
    /\ history[1].p_throws = "L" /\ history[2].p_throws = "R"
    /\ call.ret = MeansOver(history, 0)
    /\ call.ret.release_speed # Mean(<<history[1].release_speed>>)

\* The bases a row's event is worth: 1 to 4 for a hit, 0 for anything else.
BasesOf(ev) ==
    CASE ev = "single" -> 1 [] ev = "double" -> 2 [] ev = "triple" -> 3
      [] ev = "home_run" -> 4 [] OTHER -> 0

IsQualifyingOut(ev) ==
    \/ ev = "field_out" \/ ev = "strikeout" \/ ev = "force_out"
    \/ ev = "grounded_into_double_play" \/ ev = "fielders_choice"

\* Reference counts for batter b, row by row over the first k rows.
RECURSIVE RefHits(_, _)
RefHits(b, k) ==
    IF k = 0 THEN 0
    ELSE RefHits(b, k - 1)
         + (IF history[k].batter = b /\ BasesOf(history[k].events) > 0 THEN 1 ELSE 0)

RECURSIVE RefOuts(_, _)
RefOuts(b, k) ==
    IF k = 0 THEN 0
    ELSE RefOuts(b, k - 1)
         + (IF history[k].batter = b /\ IsQualifyingOut(history[k].events) THEN 1 ELSE 0)

RECURSIVE RefBases(_, _)
RefBases(b, k) ==
    IF k = 0 THEN 0
    ELSE RefBases(b, k - 1)
         + (IF history[k].batter = b THEN BasesOf(history[k].events) ELSE 0)

RefAtBats(b) == RefHits(b, Len(history)) + RefOuts(b, Len(history))

BattersOf(h) == {h[i].batter : i \in 1..Len(h)}

\* C7: for every history and every batter id in it, calculate_batter_stats
\* returns avg = hits/at-bats, slg = total bases/at-bats and iso = slg - avg
\* when at-bats > 0, and 0.0 for all three when at-bats = 0, where hits are
\* the single/double/triple/home_run rows, at-bats are the hits plus the
\* field_out, strikeout, force_out, grounded_into_double_play and
\* fielders_choice rows, and total bases weigh the hits 1, 2, 3, 4.
C7_ReferenceAggregates ==
    statsFile.exists =>
        /\ DOMAIN statsFile.table = BattersOf(history)
        /\ \A b \in BattersOf(history) :
              LET hits == RefHits(b, Len(history))
                  ab   == RefAtBats(b)
                  tb   == RefBases(b, Len(history))
                  got  == statsFile.table[b]
              IN  IF ab = 0
                  THEN got = [avg |-> Zero, slg |-> Zero, iso |-> Zero]
                  ELSE /\ got.avg = Rat(hits, ab)
                       /\ got.slg = Rat(tb, ab)
                       /\ got.iso = RatSub(got.slg, got.avg)
                       /\ got.iso = Rat(tb - hits, ab)

\* C7 witness: one single, one strikeout and one row that is no at-bat give
\* 0.5, 0.5, 0.0; and a batter with no at-bat has 0.0 for all three.
C7_Witness ==
    /\ statsFile.exists
    /\ Len(history) = 3
    /\ history[1].batter = 1 /\ history[1].events = "single"
    /\ history[2].batter = 1 /\ history[2].events = "strikeout"
    /\ history[3].batter = 2 /\ history[3].events = "walk"
    /\ statsFile.table[1] = [avg |-> Rat(1, 2), slg |-> Rat(1, 2), iso |-> Zero]
    /\ statsFile.table[2] = [avg |-> Zero, slg |-> Zero, iso |-> Zero]

\* C8: every batter profile calculate_batter_stats produces has
\* average <= slugging and isolated power >= 0, the zero-at-bats case
\* included.
C8_AverageAtMostSlugging ==
    statsFile.exists =>
        \A b \in DOMAIN statsFile.table :
            /\ RatLeq(statsFile.table[b].avg, statsFile.table[b].slg)
            /\ statsFile.table[b].iso.n >= 0

\* C8 witness: a batter whose only at-bats are home runs (slugging 4.0 over
\* average 1.0) beside a batter without an at-bat.
C8_Witness ==
    /\ statsFile.exists
    /\ DOMAIN statsFile.table = {1, 2}
    /\ statsFile.table[2] = [avg |-> Rat(1, 1), slg |-> Rat(4, 1), iso |-> Rat(3, 1)]
    /\ statsFile.table[1] = [avg |-> Zero, slg |-> Zero, iso |-> Zero]

\* (pitcher release_speed, pitcher release_spin_rate, pitcher p_throws,
\*  batter stand, batter avg, batter slg, batter iso)
ClaimedOrder == <<"release_speed", "release_spin_rate", "p_throws", "stand",
                  "avg", "slg", "iso">>

\* The value a feature column names, taken from the two profiles.
ProfileValue(column, pitcher_stats, batter_stats) ==
    IF column \in {"release_speed", "release_spin_rate", "p_throws"}
    THEN pitcher_stats[column] ELSE batter_stats[column]

\* C9: the row optimize_lineup builds for each batter holds, position by
\* position, the pitcher's release_speed, release_spin_rate and p_throws and
\* the batter's stand, avg, slg and iso; that is the column order of the
\* frame preprocess_data writes and of the features train_model fits the
\* scaler on after dropping is_hit; and R is encoded 0 and L is encoded 1 in
\* the training frame and in the profiles alike.
C9_FeatureOrder ==
    /\ processed.exists =>
          /\ drop_is_hit(processed.cols) = ClaimedOrder
          /\ \A i \in 1..Len(processed.rows) :
                processed.rows[i][3] \in {0, 1} /\ processed.rows[i][4] \in {0, 1}
    /\ scalerFile.exists => scalerFile.cols = ClaimedOrder
    /\ map_hand("R") = 0 /\ map_hand("L") = 1
    /\ hand_code("R") = 0 /\ hand_code("L") = 1
    /\ (Optimized /\ Contacted) =>
          /\ call.X.cols = call.loaded.scaler.cols
          /\ Len(call.X.rows) = Len(call.batter_names)
          /\ \A k \in 1..Len(call.X.rows) : \A j \in 1..Len(ClaimedOrder) :
                call.X.rows[k][j] =
                    ProfileValue(ClaimedOrder[j],
                                 get_pitcher_profile(call.pitcher_name),
                                 get_batter_profile(call.batter_names[k]))

\* C9 witness: a right-handed pitcher against a left-handed batter, so the
\* two handedness positions hold different values.
C9_Witness ==
    /\ Optimized /\ Contacted
    /\ call.pitcher_name = Cole /\ call.batter_names = <<Soto>>
    /\ call.X.rows[1][3] = 0 /\ call.X.rows[1][4] = 1
    /\ call.loaded.scaler.run = call.loaded.model.run

\* C10: whenever baseball_model.keras and scaler.pkl both exist and no
\* train_model run is in progress, the two were written by the same run, and
\* optimize_lineup never applies the scaler of one run to the model of
\* another.
C10_PersistedTogether ==
    /\ (trainPc = "idle" /\ modelFile.exists /\ scalerFile.exists)
          => modelFile.run = scalerFile.run
    /\ (Optimized /\ Contacted)
          => call.loaded.model.run = call.loaded.scaler.run

=============================================================================
